---------------------------- MODULE Spec2Model ----------------------------
(***************************************************************************)
(* A model of noRSI: the safety tracker (src/safety-tracker.c), the query  *)
(* handler (src/query-handler.c) and the main loop (src/main.c).           *)
(*                                                                         *)
(* Bytes are modelled as their ASCII codes (unsigned char), strings as     *)
(* sequences of bytes without the terminating NUL.  A C array is modelled  *)
(* as the sequence of its bytes up to the last position ever written; the  *)
(* positions after it hold 0 (the arrays are zeroed by memset).            *)
(***************************************************************************)
EXTENDS Integers, Sequences, FiniteSets, TLC

VARIABLES
    \* safety-tracker.c
    active_seconds,        \* periods[i].active_seconds, i \in 1..3
    \* main.c
    user_state,            \* main_state.user_state
    user_state_timestamp,  \* main_state.user_state_timestamp.tv_sec
    check_user_state,      \* main_state.check_user_state
    last_active_update,    \* the local of main()
    \* query-handler.c
    client_state,          \* client_state[i]: in, in_len, in_ready, out, out_len
    conn_poll_fds,         \* conn_poll_fds[i]: fd, events
    listener,              \* what query_handler_init_server made of socket_listener_fd
    \* control
    pc,                    \* where the main loop stands
    idx,                   \* the loop index i of query_handler_run
    \* environment
    clock,                 \* CLOCK_MONOTONIC, in whole seconds
    pending,               \* connection attempts waiting in the listener's backlog
    established,           \* fds accept() has returned and nobody has closed
    budget,                \* what has happened so far (bounds the environment)
    \* history
    last_call,             \* the most recent call of a tracker function
    run,                   \* the tracker reports of the current user state
    last_io                \* the most recent per-connection step

tracker_vars == <<active_seconds>>
main_vars == <<user_state, user_state_timestamp, check_user_state, last_active_update>>
qh_vars == <<client_state, conn_poll_fds>>
setup_vars == <<listener>>
ctl_vars == <<pc, idx>>
env_vars == <<clock, pending, established, budget>>
hist_vars == <<last_call, run, last_io>>
vars == <<tracker_vars, main_vars, qh_vars, setup_vars, ctl_vars, env_vars, hist_vars>>

(***************************************************************************)
(*                         Byte strings                                    *)
(***************************************************************************)
NUL == 0
NL == 10

str_periods_open == <<123,34,112,101,114,105,111,100,115,34,58,91>>   \* {"periods":[
str_name_open == <<123,34,110,97,109,101,34,58,34>>                   \* {"name":"
str_safe_key == <<34,44,34,115,97,102,101,34,58>>                     \* ","safe":
str_false == <<102,97,108,115,101>>                                   \* false
str_true == <<116,114,117,101>>                                       \* true
str_accumulated_key == <<44,34,97,99,99,117,109,117,108,97,116,101,100,95,115,101,99,111,110,100,115,34,58>>  \* ,"accumulated_seconds":
str_break_at_key == <<44,34,98,114,101,97,107,95,97,116,34,58>>       \* ,"break_at":
str_entry_close == <<125,44>>                                         \* },
str_periods_close == <<93,125,10>>                                    \* ]}\n
str_micro == <<109,105,99,114,111>>                                   \* micro
str_normal == <<110,111,114,109,97,108>>                              \* normal
str_workday == <<119,111,114,107,100,97,121>>                         \* workday
str_status == <<115,116,97,116,117,115>>                              \* status
str_info == <<105,110,102,111>>                                       \* info

(***************************************************************************)
(*                     safety-tracker.c                                    *)
(***************************************************************************)

\* static struct tracking_period periods[]: the configuration part
periods ==
    << [name |-> str_micro,   limit_seconds |-> 3 * 60,
        reset_seconds |-> 15, break_seconds |-> 30],
       [name |-> str_normal,  limit_seconds |-> 45 * 60,
        reset_seconds |-> 0,  break_seconds |-> 10 * 60],
       [name |-> str_workday, limit_seconds |-> 4 * 60 * 60,
        reset_seconds |-> 0,  break_seconds |-> 8 * 60 * 60] >>

tracker_count_periods == Len(periods)

PeriodIds == 1..tracker_count_periods

\* Mutant of idle_period: the early reset ignores the period's limit.
idle_period_no_limit(config, active, idle_seconds) ==
    IF active > 0
    THEN IF config.reset_seconds > 0 /\ idle_seconds > config.reset_seconds
         THEN 0
         ELSE IF idle_seconds > config.break_seconds THEN 0 ELSE active
    ELSE active

\* Mutant of idle_period: a reset subtracts the idle time instead of clearing.
idle_period_subtract(config, active, idle_seconds) ==
    IF active > 0
    THEN IF /\ active < config.limit_seconds
            /\ config.reset_seconds > 0
            /\ idle_seconds > config.reset_seconds
         THEN 0
         ELSE IF idle_seconds > config.break_seconds
              THEN IF active > idle_seconds THEN active - idle_seconds ELSE 0
              ELSE active
    ELSE active

\* Mutant of idle_period: a break clears only a window that is below its limit.
idle_period_break_below_limit(config, active, idle_seconds) ==
    IF active > 0
    THEN IF /\ active < config.limit_seconds
            /\ config.reset_seconds > 0
            /\ idle_seconds > config.reset_seconds
         THEN 0
         ELSE IF idle_seconds > config.break_seconds /\ active < config.limit_seconds
              THEN 0
              ELSE active
    ELSE active

\* Mutant of idle_period: a break halves the accumulated seconds.
idle_period_break_halves(config, active, idle_seconds) ==
    IF active > 0
    THEN IF /\ active < config.limit_seconds
            /\ config.reset_seconds > 0
            /\ idle_seconds > config.reset_seconds
         THEN 0
         ELSE IF idle_seconds > config.break_seconds THEN active \div 2 ELSE active
    ELSE active

\* The body of the loop of tracker_provide_idle_seconds for one period:
\* the period's active_seconds after the call.
idle_period(config, active, idle_seconds) ==
    IF active > 0
    THEN IF /\ active < config.limit_seconds
            /\ config.reset_seconds > 0
            /\ idle_seconds > config.reset_seconds
         THEN 0
         ELSE IF idle_seconds > config.break_seconds
              THEN 0
              ELSE active
    ELSE active

tracker_provide_idle_seconds(idle_seconds) ==
    active_seconds' =
        [i \in PeriodIds |-> idle_period(periods[i], active_seconds[i], idle_seconds)]

\* Mutant of tracker_provide_active_seconds: only the first window advances.
tracker_provide_active_seconds_first_only(seconds) ==
    active_seconds' = [i \in PeriodIds |->
                          IF i = 1 THEN active_seconds[i] + seconds ELSE active_seconds[i]]

tracker_provide_active_seconds(seconds) ==
    active_seconds' = [i \in PeriodIds |-> active_seconds[i] + seconds]

\* sprintf(readout, "%i", n)
RECURSIVE digits(_)
digits(n) == IF n < 10 THEN <<48 + n>> ELSE digits(n \div 10) \o <<48 + (n % 10)>>

sprintf_i(n) == IF n < 0 THEN <<45>> \o digits(-n) ELSE digits(n)

\* Mutant of status_entry: a period that has reached its limit is reported unsafe.
status_entry_safe_strict(config, active) ==
    str_name_open \o config.name \o str_safe_key
    \o (IF active >= config.limit_seconds THEN str_false ELSE str_true)
    \o str_accumulated_key \o sprintf_i(active)
    \o str_break_at_key \o sprintf_i(config.limit_seconds)
    \o str_entry_close

\* One iteration of the loop of tracker_get_status_json: what it appends.
status_entry(config, active) ==
    str_name_open \o config.name \o str_safe_key
    \o (IF active > config.limit_seconds THEN str_false ELSE str_true)
    \o str_accumulated_key \o sprintf_i(active)
    \o str_break_at_key \o sprintf_i(config.limit_seconds)
    \o str_entry_close

RECURSIVE status_entries(_, _)
status_entries(act, i) ==
    IF i > tracker_count_periods THEN <<>>
    ELSE status_entry(periods[i], act[i]) \o status_entries(act, i + 1)

\* Mutant of tracker_get_status_json: the values of before the last call of
\* the tracker are serialized.
tracker_get_status_json_before_dispatch(act) ==
    LET buff == str_periods_open \o status_entries(last_call.pre, 1)
    IN  SubSeq(buff, 1, Len(buff) - 1) \o str_periods_close

\* tracker_get_status_json: the string returned for the accumulators act.
\* buff[len-1] = 0 drops the last byte (the comma after the last entry).
tracker_get_status_json(act) ==
    LET buff == str_periods_open \o status_entries(act, 1)
    IN  SubSeq(buff, 1, Len(buff) - 1) \o str_periods_close

(***************************************************************************)
(*                     query-handler.c                                     *)
(***************************************************************************)
QUERY_HANDLER_MAX_CONNECTION_BACKLOG == 1
QUERY_HANDLER_MAX_CLIENTS == 16
QUERY_HANDLER_MAX_CLIENT_BUFFER == 1024

POLLIN == "POLLIN"
POLLOUT == "POLLOUT"

Slots == 0..(QUERY_HANDLER_MAX_CLIENTS - 1)

Min(a, b) == IF a < b THEN a ELSE b
Max(a, b) == IF a > b THEN a ELSE b

\* A function on 1..n as a sequence of bytes
Bytes(f) == SubSeq(f, 1, Len(f))

\* arr[k] of a C array (k counts from 0)
At(arr, k) == IF k >= 0 /\ k < Len(arr) THEN arr[k + 1] ELSE 0

\* The array after the bytes of data are stored at arr[off], arr[off+1], ...
store_bytes(arr, off, data) ==
    Bytes([k \in 1..Max(Len(arr), off + Len(data)) |->
            IF k - 1 >= off /\ k - 1 < off + Len(data) THEN data[k - off]
            ELSE At(arr, k - 1)])

\* memset(&(client_state[i]), 0, sizeof(struct client_state))
zeroed_client_state ==
    [in |-> <<>>, in_len |-> 0, in_ready |-> 0, out |-> <<>>, out_len |-> 0]

closed_pollfd == [fd |-> -1, events |-> {}]

query_handler_current_client_count ==
    Cardinality({i \in Slots : conn_poll_fds[i].fd >= 0})

\* query_handler_store_connection: the slot the loop stops at, -1 if it finds none
store_slot(pfds) ==
    IF \E i \in Slots : pfds[i].fd = -1
    THEN CHOOSE i \in Slots : pfds[i].fd = -1 /\ \A j \in Slots : j < i => pfds[j].fd # -1
    ELSE -1

\* query_handler_message_ready, for one struct client_state
query_handler_message_ready(cs) ==
    \E k \in 0..(cs.in_len - 1) : At(cs.in, k) = NL

\* The loop of query_handler_handle_message that finds the newline
find_msg_len(cs) ==
    IF query_handler_message_ready(cs)
    THEN CHOOSE k \in 0..(cs.in_len - 1) :
            At(cs.in, k) = NL /\ \A j \in 0..(k - 1) : At(cs.in, j) # NL
    ELSE 0

\* The bytes memcpy(parse_buff, cs->in, msg_len) copies
parse_bytes(cs) == Bytes([k \in 1..find_msg_len(cs) |-> At(cs.in, k - 1)])

\* A byte array read as a C string: the bytes before the first NUL
c_string(bytes) ==
    IF \E k \in 1..Len(bytes) : bytes[k] = NUL
    THEN SubSeq(bytes, 1,
            (CHOOSE k \in 1..Len(bytes) :
                bytes[k] = NUL /\ \A j \in 1..(k - 1) : bytes[j] # NUL) - 1)
    ELSE bytes

\* strcmp(parse_buff, "status") == 0
is_status_request(cs) == c_string(parse_bytes(cs)) = str_status

\* Mutant of shift_input: the bytes after the message stay where they are.
shift_input_not_moved(cs) == cs.in

\* memmove(cs->in, &(cs->in[msg_len + 1]), cs->in_len - (msg_len + 1))
shift_input(cs) ==
    LET msg_len == find_msg_len(cs)
        n == cs.in_len - (msg_len + 1)
    IN  Bytes([k \in 1..Len(cs.in) |->
                IF k <= n THEN At(cs.in, k + msg_len) ELSE cs.in[k]])

\* query_handler_handle_message: the struct client_state after it, when the
\* tracker's accumulators are act
query_handler_handle_message(cs, act) ==
    LET status == tracker_get_status_json(act)
        is_status == is_status_request(cs)
    IN  [cs EXCEPT
            !.out = IF is_status THEN store_bytes(cs.out, 0, status) ELSE cs.out,
            !.out_len = IF is_status THEN Len(status) ELSE cs.out_len,
            !.in = shift_input(cs),
            !.in_len = cs.in_len - (find_msg_len(cs) + 1)]

\* while (query_handler_message_ready(i)) query_handler_handle_message(i);
RECURSIVE handle_messages(_, _)
handle_messages(cs, act) ==
    IF query_handler_message_ready(cs)
    THEN handle_messages(query_handler_handle_message(cs, act), act)
    ELSE cs

\* What read() stores at read_to: at most max_read of the bytes the peer sent.
\* A negative max_read is converted to a size_t larger than any message.
read_data(rd, max_read) ==
    IF rd.kind = "data"
    THEN IF max_read < 0 THEN rd.data
         ELSE SubSeq(rd.data, 1, Min(Len(rd.data), max_read))
    ELSE <<>>

\* The bytes of the input buffer proper: a read that starts at or runs past
\* in[C] stores those bytes in the fields that follow (first in_len, which the
\* assignment after the read overwrites).
kept_in(arr) == SubSeq(arr, 1, Min(Len(arr), QUERY_HANDLER_MAX_CLIENT_BUFFER))

\* The "receive incoming data" lines up to cs->in_len = read_count.  With
\* in_len = -1 read_to is &in[-1]: the first byte lands before the array.
receive(cs, rd) ==
    LET max_read == QUERY_HANDLER_MAX_CLIENT_BUFFER - cs.in_len
        data == read_data(rd, max_read)
        read_count == IF rd.kind = "error" THEN -1 ELSE Len(data)
    IN  [cs EXCEPT
            !.in = IF data = <<>> THEN cs.in
                   ELSE IF cs.in_len >= 0
                   THEN kept_in(store_bytes(cs.in, cs.in_len, data))
                   ELSE store_bytes(cs.in, 0, Tail(data)),
            !.in_len = read_count]

\* A read whose bytes reach past the in_len field that follows the input
\* buffer overwrites in_ready and out; what the process does after that is
\* not followed.
read_past_in_len(cs, rd) ==
    LET data == read_data(rd, QUERY_HANDLER_MAX_CLIENT_BUFFER - cs.in_len)
    IN  /\ data # <<>>
        /\ cs.in_len + Len(data) > QUERY_HANDLER_MAX_CLIENT_BUFFER + 4

\* The byte a read stores outside the input buffer, -1 if it stores none
stray_byte(cs, rd) ==
    LET data == read_data(rd, QUERY_HANDLER_MAX_CLIENT_BUFFER - cs.in_len)
    IN  IF cs.in_len < 0 /\ data # <<>> THEN Head(data) ELSE -1

\* in[-1] of client_state[i] is the last byte of client_state[i-1].out_len:
\* the int after that byte is overwritten, on a little-endian build (its most
\* significant byte) or a big-endian one (its least significant byte).
clobber_int(value, byte, endian) ==
    IF endian = "little"
    THEN (value % 16777216) + (IF byte < 128 THEN byte ELSE byte - 256) * 16777216
    ELSE value - (value % 256) + byte

\* int write_count = write(conn_poll_fds[i].fd, cs->out, cs->out_len)
write_count_of(cs, pfd, wr) ==
    IF pfd.fd = -1 \/ wr.kind = "error" THEN -1
    ELSE IF wr.kind = "full" THEN cs.out_len
    ELSE Min(wr.n, cs.out_len)

\* memcpy(cs->out, &(cs->out[write_count]), cs->out_len - write_count): source
\* and destination overlap when less than half was written, and then the copy
\* may run from the low addresses up or from the high addresses down.
memcpy_shift(arr, write_count, n, dir) ==
    LET \* copying downwards, out[k] receives the byte that out[k + write_count]
        \* holds by then: the original byte of the last position of that chain
        down(k) == At(arr, k + write_count * (((n - 1 - k) \div write_count) + 1))
    IN  Bytes([k \in 1..Max(Len(arr), n) |->
                IF k <= n
                THEN IF dir = "down" /\ write_count > 0 THEN down(k - 1)
                     ELSE At(arr, k - 1 + write_count)
                ELSE arr[k]])

\* The "send outgoing data" lines after a write that returned write_count >= 0
send(cs, write_count, dir) ==
    IF write_count = cs.out_len THEN [cs EXCEPT !.out_len = 0]
    ELSE IF write_count < cs.out_len
    THEN [cs EXCEPT
            !.out = memcpy_shift(cs.out, write_count, cs.out_len - write_count, dir),
            !.out_len = cs.out_len - write_count]
    ELSE cs

\* Mutant of release_on_read_zero: the slot keeps its descriptor.
release_never(pfd, read_count) == pfd

\* if (read_count == 0) { ... close(pfd->fd); pfd->fd = -1; }
release_on_read_zero(pfd, read_count) ==
    IF read_count = 0 THEN [pfd EXCEPT !.fd = -1] ELSE pfd

\* One iteration of the for loop of query_handler_run for a slot whose revents
\* has POLLIN or POLLOUT.  rd is what read() finds, wr what write() does, act
\* the tracker's accumulators.
client_iteration(cs, pfd, revents, rd, wr, act) ==
    LET does_read == POLLIN \in revents
        cs_read == IF does_read THEN receive(cs, rd) ELSE cs
        read_count == IF does_read THEN cs_read.in_len ELSE -2
        pfd1 == release_on_read_zero(pfd, read_count)
        cs1 == IF read_count > 0 /\ query_handler_message_ready(cs_read)
               THEN [cs_read EXCEPT !.in_ready = 1] ELSE cs_read
        does_write == read_count # -1 /\ POLLOUT \in revents
        write_count == IF does_write THEN write_count_of(cs1, pfd1, wr) ELSE -2
        \* a write of more than the output buffer holds reads past its end
        fault == \/ write_count >= 0
                    /\ cs1.out_len \notin 0..QUERY_HANDLER_MAX_CLIENT_BUFFER
                 \/ does_read /\ read_past_in_len(cs, rd)
        cs2 == IF write_count >= 0 /\ ~fault
               THEN send(cs1, write_count, wr.dir) ELSE cs1
        pfd2 == IF write_count >= 0 /\ write_count = cs1.out_len
                THEN [pfd1 EXCEPT !.events = @ \ {POLLOUT}] ELSE pfd1
        does_handle == /\ read_count # -1
                       /\ write_count # -1
                       /\ query_handler_message_ready(cs2)
        cs3 == IF does_handle THEN handle_messages(cs2, act) ELSE cs2
        pfd3 == IF does_handle /\ cs3.out_len > 0
                THEN [pfd2 EXCEPT !.events = @ \cup {POLLOUT}] ELSE pfd2
    IN  [cs |-> cs3, pfd |-> pfd3,
         read_count |-> read_count, write_count |-> write_count,
         after_read |-> cs1, before_handle |-> cs2, handled |-> does_handle,
         first_handled |-> IF does_handle
                           THEN query_handler_handle_message(cs2, act) ELSE cs2,
         stray |-> IF does_read THEN stray_byte(cs, rd) ELSE -1,
         fault |-> fault]

(***************************************************************************)
(*                           main.c                                        *)
(***************************************************************************)
USER_UNKNOWN == "USER_UNKNOWN"
USER_IDLE == "USER_IDLE"
USER_ACTIVE == "USER_ACTIVE"

\* Mutant of dispatch_events: the callbacks do not record the time.
dispatch_events_keeps_timestamp(ms, events, t) ==
    IF events = <<>> THEN ms
    ELSE [user_state |-> IF events[Len(events)] = "idle" THEN USER_IDLE ELSE USER_ACTIVE,
          user_state_timestamp |-> ms.user_state_timestamp,
          check_user_state |-> 1]

\* idle_timer_idle / idle_timer_resumed, called by wl_display_dispatch for the
\* events it reads, at time t: the main_state fields after the callbacks
RECURSIVE dispatch_events(_, _, _)
dispatch_events(ms, events, t) ==
    IF events = <<>> THEN ms
    ELSE dispatch_events(
            [user_state |-> IF Head(events) = "idle" THEN USER_IDLE ELSE USER_ACTIVE,
             user_state_timestamp |-> t,
             check_user_state |-> 1],
            Tail(events), t)

\* Mutant of check_state: a resumed event does not unset last_active_update.
check_state_keeps_marker(ms, lau) == lau

\* if (main_state.check_user_state) { ... }: last_active_update after it
check_state(ms, lau) ==
    IF ms.check_user_state # 0 /\ ms.user_state = USER_ACTIVE THEN -1 ELSE lau

\* case USER_ACTIVE of the dispatch switch: whether tracker_provide_active_seconds
\* is called, with what, and last_active_update afterwards
active_report(lau, since, now) ==
    LET elapsed_s == 0 + now - since
        from == IF lau = -1 THEN since ELSE lau
    IN  IF elapsed_s > 0 /\ lau < now
        THEN [report |-> TRUE, seconds |-> now - from, lau |-> now]
        ELSE [report |-> FALSE, seconds |-> 0, lau |-> lau]

\* Mutant of idle_elapsed: without the offset of one second.
idle_elapsed_no_offset(since, now) == now - since

\* case USER_IDLE: the argument of tracker_provide_idle_seconds
idle_elapsed(since, now) == 1 + now - since

(***************************************************************************)
(*                          History                                        *)
(***************************************************************************)
NoCall == [fn |-> "none", arg |-> 0, pre |-> <<>>, ret |-> <<>>,
           prev_fn |-> "none", prev_arg |-> 0, prev_pre |-> <<>>]

Call(fn, arg, ret) ==
    [fn |-> fn, arg |-> arg, pre |-> active_seconds, ret |-> ret,
     prev_fn |-> last_call.fn, prev_arg |-> last_call.arg,
     prev_pre |-> last_call.pre]

NoRun == [state |-> USER_UNKNOWN, event |-> "none", since |-> 0, sum |-> 0, reports |-> 0,
          last_report |-> -1, prev_report |-> -1, last_seconds |-> 0]

NoIo == [slot |-> -1]

\* run.reports counts up to this and stays there
MaxCounted == 2

(***************************************************************************)
(*                           Init                                          *)
(***************************************************************************)
Init ==
    /\ active_seconds = [i \in PeriodIds |-> 0]
    /\ user_state = USER_UNKNOWN
    /\ user_state_timestamp = 0
    /\ check_user_state = 1
    /\ last_active_update = -1
    /\ client_state = [i \in Slots |-> zeroed_client_state]
    /\ conn_poll_fds = [i \in Slots |-> closed_pollfd]
    /\ listener = "listening"
    /\ pc = "main"
    /\ idx = 0
    /\ clock = 0
    /\ pending = 0
    /\ established = {}
    /\ budget = [connects |-> 0, reads |-> 0, read_errors |-> 0, closes |-> 0,
                 partial_writes |-> 0, write_errors |-> 0, accept_errors |-> 0,
                 accepts |-> 0, full_waits |-> 0, calls |-> 0]
    /\ last_call = NoCall
    /\ run = NoRun
    /\ last_io = NoIo

(***************************************************************************)
(*                 The main loop, one step at a time                       *)
(*                                                                         *)
(* pc = "main": the top of while (1); "accept": query_handler_run is       *)
(* entered; "clients": its for loop stands before slot idx.  The slots     *)
(* whose revents has neither POLLIN nor POLLOUT are skipped by the loop    *)
(* and change nothing, so a step goes straight to the next ready slot;     *)
(* what poll() reports for a slot is chosen when the loop reaches it,      *)
(* since no earlier iteration changes that slot's fd or events.            *)
(***************************************************************************)

\* One pass of the while loop of main() up to the call of query_handler_run.
\* events: what wl_display_dispatch delivers, d1: the seconds that pass until
\* the callbacks read the clock, d2: until the loop reads it.
MainTick(events, d1, d2) ==
    /\ pc = "main"
    /\ LET t == clock + d1
           now == t + d2
           ms == dispatch_events(
                    [user_state |-> user_state,
                     user_state_timestamp |-> user_state_timestamp,
                     check_user_state |-> check_user_state], events, t)
           lau == check_state(ms, last_active_update)
           rep == active_report(lau, ms.user_state_timestamp, now)
           idle_s == idle_elapsed(ms.user_state_timestamp, now)
           run0 == IF events # <<>>
                   THEN [NoRun EXCEPT !.state = ms.user_state, !.since = t,
                                      !.event = events[Len(events)]]
                   ELSE run
       IN  /\ user_state' = ms.user_state
           /\ user_state_timestamp' = ms.user_state_timestamp
           /\ check_user_state' = 0
           /\ clock' = now
           /\ CASE ms.user_state = USER_IDLE ->
                    /\ tracker_provide_idle_seconds(idle_s)
                    /\ last_active_update' = lau
                    /\ last_call' = Call("idle", idle_s, <<>>)
                    /\ run' = [run0 EXCEPT !.reports = Min(@ + 1, MaxCounted),
                                           !.last_seconds = idle_s,
                                           !.prev_report = run0.last_report,
                                           !.last_report = now]
                [] ms.user_state = USER_ACTIVE /\ rep.report ->
                    /\ tracker_provide_active_seconds(rep.seconds)
                    /\ last_active_update' = rep.lau
                    /\ last_call' = Call("active", rep.seconds, <<>>)
                    /\ run' = [run0 EXCEPT !.reports = Min(@ + 1, MaxCounted),
                                           !.sum = @ + rep.seconds,
                                           !.last_seconds = rep.seconds,
                                           !.prev_report = run0.last_report,
                                           !.last_report = now]
                [] OTHER ->
                    /\ UNCHANGED active_seconds
                    /\ last_active_update' = lau
                    /\ last_call' = Call("none", 0, <<>>)
                    /\ run' = run0
    /\ pc' = "accept"
    /\ last_io' = NoIo
    /\ UNCHANGED <<setup_vars, qh_vars, idx, pending, established, budget>>

\* The listener (fd 4 after stdin, stdout, stderr and the display's fd)
socket_listener_fd == 4

\* accept() returns the lowest descriptor not in use
accepted_fd ==
    CHOOSE f \in (socket_listener_fd + 1)..(socket_listener_fd + 1 + Cardinality(established)) :
        /\ f \notin established
        /\ \A g \in (socket_listener_fd + 1)..(f - 1) : g \in established

\* Mutant of room_for_client: accepts with every slot taken.
room_for_client_off_by_one(count) == count <= QUERY_HANDLER_MAX_CLIENTS

\* Mutant of room_for_client: the last free slot is never given away.
room_for_client_keeps_one_free(count) == count < QUERY_HANDLER_MAX_CLIENTS - 1

\* if (query_handler_current_client_count() < QUERY_HANDLER_MAX_CLIENTS)
room_for_client(count) == count < QUERY_HANDLER_MAX_CLIENTS

\* Mutant of store_client_state: the slot's state is left as it was.
store_client_state_not_cleared(cs) == cs

\* memset(&(client_state[i]), 0, sizeof(struct client_state)) of
\* query_handler_store_connection
store_client_state(cs) == zeroed_client_state

\* What query_handler_store_connection makes of conn_poll_fds[i]
store_pollfd(pfd, fd) == [fd |-> fd, events |-> {POLLIN}]

\* "Handle any new incoming connections" of query_handler_run.  accept_ok:
\* whether accept() returns a descriptor.
QhAccept(accept_ok) ==
    /\ pc = "accept"
    /\ IF /\ listener = "listening"
          /\ pending > 0
          /\ room_for_client(query_handler_current_client_count)
          /\ accept_ok
       THEN LET fd == accepted_fd
                i == store_slot(conn_poll_fds)
            IN  /\ pending' = pending - 1
                /\ established' = established \cup {fd}
                /\ conn_poll_fds' =
                      IF i = -1 THEN conn_poll_fds
                      ELSE [conn_poll_fds EXCEPT ![i] = store_pollfd(@, fd)]
                /\ client_state' =
                      IF i = -1 THEN client_state
                      ELSE [client_state EXCEPT ![i] = store_client_state(@)]
                /\ last_io' =
                      IF i = -1 THEN last_io
                      ELSE [slot |-> -1, stored |-> i,
                            old_state |-> client_state[i],
                            old_pollfd |-> conn_poll_fds[i]]
       ELSE UNCHANGED <<pending, established, conn_poll_fds, client_state, last_io>>
    /\ budget' = IF pending = 0 THEN budget
                 ELSE IF ~room_for_client(query_handler_current_client_count)
                 THEN [budget EXCEPT !.full_waits = Min(@ + 1, 1)]
                 ELSE IF accept_ok THEN [budget EXCEPT !.accepts = @ + 1]
                 ELSE [budget EXCEPT !.accept_errors = @ + 1]
    /\ pc' = "clients"
    /\ idx' = 0
    /\ UNCHANGED <<setup_vars, tracker_vars, main_vars, clock, last_call, run>>

\* One iteration of the for loop of query_handler_run, for the next slot i
\* whose revents is not empty.
QhClient(i, revents, rd, wr, endian) ==
    /\ pc = "clients"
    /\ i \in Slots
    /\ i >= idx
    /\ conn_poll_fds[i].fd >= 0
    /\ revents # {}
    /\ revents \subseteq conn_poll_fds[i].events
    /\ LET r == client_iteration(client_state[i], conn_poll_fds[i], revents, rd, wr,
                                 active_seconds)
       IN  IF r.fault
           THEN /\ pc' = "crashed"
                /\ UNCHANGED <<client_state, conn_poll_fds, established, idx, last_io>>
           ELSE /\ pc' = "clients"
                /\ idx' = i + 1
                /\ client_state' =
                      [j \in Slots |->
                          IF j = i THEN r.cs
                          ELSE IF j = i - 1 /\ r.stray >= 0
                          THEN [client_state[j] EXCEPT
                                  !.out_len = clobber_int(@, r.stray, endian)]
                          ELSE client_state[j]]
                /\ conn_poll_fds' = [conn_poll_fds EXCEPT ![i] = r.pfd]
                /\ established' = IF r.read_count = 0
                                  THEN established \ {conn_poll_fds[i].fd}
                                  ELSE established
                /\ last_io' = [slot |-> i, revents |-> revents,
                               read_count |-> r.read_count,
                               write_count |-> r.write_count,
                               pre |-> client_state[i],
                               after_read |-> r.after_read,
                               before_handle |-> r.before_handle,
                               handled |-> r.handled,
                               first_handled |-> r.first_handled,
                               pre_state |-> client_state,
                               pre_fds |-> conn_poll_fds,
                               pre_active |-> active_seconds]
    /\ UNCHANGED <<setup_vars, tracker_vars, main_vars, clock, pending, last_call, run>>

\* The for loop ends (no later slot is ready) and query_handler_run returns.
QhReturn ==
    /\ pc = "clients"
    /\ pc' = "main"
    /\ idx' = 0
    /\ UNCHANGED <<setup_vars, tracker_vars, main_vars, qh_vars, env_vars, hist_vars>>

\* A client calls connect(): the attempt waits in the listener's backlog.
ClientConnects ==
    /\ pc = "main"
    /\ listener = "listening"
    /\ pending <= QUERY_HANDLER_MAX_CONNECTION_BACKLOG
    /\ pending' = pending + 1
    /\ budget' = [budget EXCEPT !.connects = @ + 1]
    /\ UNCHANGED <<setup_vars, tracker_vars, main_vars, qh_vars, ctl_vars, clock, established, hist_vars>>

(***************************************************************************)
(*        The query service under client traffic (SpecTraffic)             *)
(*                                                                         *)
(* No idle event arrives (the user state stays USER_UNKNOWN), clients      *)
(* connect, send, close and read their responses.  A read returns at most  *)
(* QUERY_HANDLER_MAX_CLIENT_BUFFER bytes of what the peer sent.            *)
(***************************************************************************)
MaxConnects == 1
MaxReads == 2
MaxReadErrors == 1
MaxCloses == 1
MaxPartialWrites == 1
MaxWriteErrors == 1
MaxAcceptErrors == 1

req_status == <<115,116,97,116,117,115,10>>   \* status\n
req_info == <<105,110,102,111,10>>   \* info\n
req_status_info == <<115,116,97,116,117,115,10,105,110,102,111,10>>   \* status\ninfo\n
req_status_status == <<115,116,97,116,117,115,10,115,116,97,116,117,115,10>>   \* status\nstatus\n
req_sta == <<115,116,97>>   \* sta
req_tus == <<116,117,115,10>>   \* tus\n
req_capital == <<83,116,97,116,117,115,10>>   \* Status\n
req_status_nul == <<115,116,97,116,117,115,0,120,10>>   \* status\0x\n
\* a line longer than the input buffer
req_long == Bytes([k \in 1..(QUERY_HANDLER_MAX_CLIENT_BUFFER + 1) |-> 120])

Chunks == {req_status, req_info, req_status_info, req_status_status, req_sta,
           req_tus, req_capital, req_status_nul}

NoRead == [kind |-> "none", data |-> <<>>]
ReadError == [kind |-> "error", data |-> <<>>]
ReadEof == [kind |-> "eof", data |-> <<>>]
ReadChoices == {ReadError, ReadEof} \cup {[kind |-> "data", data |-> c] : c \in Chunks}

NoWrite == [kind |-> "none", n |-> 0, dir |-> "up"]
WriteError == [kind |-> "error", n |-> 0, dir |-> "up"]
WriteAll == [kind |-> "full", n |-> 0, dir |-> "up"]
PartialCounts == {100, 150}
\* The outcomes of a write of out_len bytes; the direction of the memcpy only
\* matters when its source and destination overlap
WriteChoices(out_len) ==
    {WriteError, WriteAll}
    \cup {[kind |-> "partial", n |-> n, dir |-> "up"] :
            n \in {m \in PartialCounts : m < out_len}}
    \cup {[kind |-> "partial", n |-> n, dir |-> "down"] :
            n \in {m \in PartialCounts : 2 * m < out_len}}

\* What the step costs of the environment's budget
charge(b, rd, wr) ==
    [b EXCEPT
        !.reads = IF rd.kind = "data" THEN @ + 1 ELSE @,
        !.read_errors = IF rd.kind = "error" THEN @ + 1 ELSE @,
        !.closes = IF rd.kind = "eof" THEN @ + 1 ELSE @,
        !.partial_writes = IF wr.kind = "partial" THEN @ + 1 ELSE @,
        !.write_errors = IF wr.kind = "error" THEN @ + 1 ELSE @]

within_budget(b) ==
    /\ b.reads <= MaxReads
    /\ b.read_errors <= MaxReadErrors
    /\ b.closes <= MaxCloses
    /\ b.partial_writes <= MaxPartialWrites
    /\ b.write_errors <= MaxWriteErrors

TickQuiet == MainTick(<<>>, 0, 0)

Connect ==
    /\ budget.connects < MaxConnects
    /\ ClientConnects

Accept ==
    \E accept_ok \in BOOLEAN :
        /\ ~accept_ok => budget.accept_errors < MaxAcceptErrors /\ pending > 0
        /\ QhAccept(accept_ok)

ClientIO ==
    /\ pc = "clients"
    /\ \E i \in {j \in Slots : j >= idx /\ conn_poll_fds[j].fd >= 0} :
        \E revents \in (SUBSET conn_poll_fds[i].events) \ {{}} :
          \E rd \in IF POLLIN \in revents THEN ReadChoices ELSE {NoRead},
             wr \in IF POLLOUT \in revents
                   THEN WriteChoices(client_state[i].out_len) ELSE {NoWrite},
             endian \in IF client_state[i].in_len < 0 /\ i > 0
                        THEN {"little", "big"} ELSE {"little"} :
            /\ within_budget(charge(budget, rd, wr))
            /\ budget' = charge(budget, rd, wr)
            /\ QhClient(i, revents, rd, wr, endian)

NextTraffic == TickQuiet \/ Connect \/ Accept \/ ClientIO \/ QhReturn

SpecTraffic == Init /\ [][NextTraffic]_vars

(***************************************************************************)
(*              Two connections side by side (SpecPair)                    *)
(***************************************************************************)
MaxPairConnects == 2
MaxPairReads == 1

PairReadChoices == {ReadError, ReadEof, [kind |-> "data", data |-> req_status]}
PairWriteChoices == {WriteError, WriteAll}

ConnectPair ==
    /\ budget.connects < MaxPairConnects
    /\ ClientConnects

PairIO ==
    /\ pc = "clients"
    /\ \E i \in {j \in Slots : j >= idx /\ conn_poll_fds[j].fd >= 0} :
        \E revents \in (SUBSET conn_poll_fds[i].events) \ {{}} :
          \E rd \in IF POLLIN \in revents THEN PairReadChoices ELSE {NoRead},
             wr \in IF POLLOUT \in revents THEN PairWriteChoices ELSE {NoWrite},
             endian \in IF client_state[i].in_len < 0 /\ i > 0
                        THEN {"little", "big"} ELSE {"little"} :
            /\ charge(budget, rd, wr).reads <= MaxPairReads
            /\ charge(budget, rd, wr).read_errors <= MaxReadErrors
            /\ charge(budget, rd, wr).closes <= MaxCloses
            /\ charge(budget, rd, wr).write_errors <= MaxWriteErrors
            /\ budget' = charge(budget, rd, wr)
            /\ QhClient(i, revents, rd, wr, endian)

NextPair == TickQuiet \/ ConnectPair \/ Accept \/ PairIO \/ QhReturn

SpecPair == Init /\ [][NextPair]_vars

(***************************************************************************)
(*      Connections up to the limit and beyond (SpecCapacity)              *)
(*                                                                         *)
(* Clients connect and close without sending anything.                     *)
(***************************************************************************)
MaxCapacityConnects == 18
MaxCapacityCloses == 2

ConnectMany ==
    /\ budget.connects < MaxCapacityConnects
    /\ ClientConnects

\* The loop reaches a slot whose peer has closed: read() returns 0.
PeerCloses ==
    /\ pc = "clients"
    /\ budget.closes < MaxCapacityCloses
    /\ \E i \in {j \in Slots : j >= idx /\ conn_poll_fds[j].fd >= 0} :
        /\ budget' = charge(budget, ReadEof, NoWrite)
        /\ QhClient(i, {POLLIN}, ReadEof, NoWrite, "little")

NextCapacity == TickQuiet \/ ConnectMany \/ Accept \/ PeerCloses \/ QhReturn

SpecCapacity == Init /\ [][NextCapacity]_vars

\* The loop of main() never blocks: poll() waits 20 ms at most, and accept,
\* read and write are non-blocking.
SpecCapacityFair ==
    /\ SpecCapacity
    /\ WF_vars(TickQuiet)
    /\ WF_vars(Accept)
    /\ WF_vars(QhReturn)

(***************************************************************************)
(*        The main loop under idle and resumed events (SpecMain)           *)
(*                                                                         *)
(* No client connects.                                                     *)
(***************************************************************************)
MaxClock == 7
MaxAdvance == 2

EventSeqs == {<<>>, <<"idle">>, <<"resumed">>, <<"idle", "resumed">>, <<"resumed", "idle">>}

TickTimed ==
    \E events \in EventSeqs, d1 \in 0..MaxAdvance, d2 \in 0..1 :
        /\ clock + d1 + d2 <= MaxClock
        /\ MainTick(events, d1, d2)

NextMain == TickTimed \/ Accept \/ QhReturn

SpecMain == Init /\ [][NextMain]_vars

(***************************************************************************)
(*          The tracker's functions, called one at a time                  *)
(***************************************************************************)
MaxCalls == 5
MaxActive == 15000
IdleArgs == {0, 15, 16, 30, 31, 600, 601, 28800, 28801}
ActiveArgs == {50, 150, 2500, 14201}

Called == budget' = [budget EXCEPT !.calls = @ + 1]

CallIdle ==
    /\ budget.calls < MaxCalls
    /\ \E s \in IdleArgs :
        /\ tracker_provide_idle_seconds(s)
        /\ last_call' = Call("idle", s, <<>>)
    /\ Called
    /\ UNCHANGED <<setup_vars, main_vars, qh_vars, ctl_vars, clock, pending, established, run, last_io>>

CallActive ==
    /\ budget.calls < MaxCalls
    /\ \E d \in ActiveArgs :
        /\ \A i \in PeriodIds : active_seconds[i] + d <= MaxActive
        /\ tracker_provide_active_seconds(d)
        /\ last_call' = Call("active", d, <<>>)
    /\ Called
    /\ UNCHANGED <<setup_vars, main_vars, qh_vars, ctl_vars, clock, pending, established, run, last_io>>

CallStatus ==
    /\ budget.calls < MaxCalls
    /\ last_call' = Call("status", 0, tracker_get_status_json(active_seconds))
    /\ Called
    /\ UNCHANGED <<setup_vars, tracker_vars, main_vars, qh_vars, ctl_vars, clock, pending,
                   established, run, last_io>>

NextTracker == CallIdle \/ CallActive \/ CallStatus

SpecTracker == Init /\ [][NextTracker]_vars

(***************************************************************************)
(*     Status requests while the user is idle or active (SpecStatus)       *)
(***************************************************************************)
MaxStatusConnects == 1
MaxStatusReads == 2
MaxStatusClock == 2

ConnectStatus ==
    /\ budget.connects < MaxStatusConnects
    /\ ClientConnects

\* The client sends status requests, and takes the responses whole.
StatusIO ==
    /\ pc = "clients"
    /\ \E i \in {j \in Slots : j >= idx /\ conn_poll_fds[j].fd >= 0} :
        \E revents \in (SUBSET conn_poll_fds[i].events) \ {{}} :
          \E rd \in IF POLLIN \in revents
                    THEN {[kind |-> "data", data |-> req_status]} ELSE {NoRead},
             wr \in IF POLLOUT \in revents THEN {WriteAll} ELSE {NoWrite} :
            /\ charge(budget, rd, wr).reads <= MaxStatusReads
            /\ budget' = charge(budget, rd, wr)
            /\ QhClient(i, revents, rd, wr, "little")

\* A pass of the loop in which at most one event arrives and at most one
\* second passes.
TickStatus ==
    \E events \in {<<>>, <<"idle">>, <<"resumed">>}, d2 \in 0..1 :
        /\ clock + d2 <= MaxStatusClock
        /\ MainTick(events, 0, d2)

NextStatus == TickStatus \/ ConnectStatus \/ Accept \/ StatusIO \/ QhReturn

SpecStatus == Init /\ [][NextStatus]_vars

(***************************************************************************)
(*        Start-up of the query handler, then the loop (SpecSetup)         *)
(***************************************************************************)
SetupOutcomes == {"ok", "no_path", "mkdir_fails", "mkdir_and_bind_fail",
                  "socket_fails", "bind_fails", "listen_fails"}

\* query_handler_init_server, called by main() before its loop.  outcome: what
\* the environment lets succeed.  Without XDG_RUNTIME_DIR sock_path is NULL and
\* strncpy(addr.sun_path, sock_path, ...) reads through the null pointer.
\* A failed mkdir leaves bind working when the folder is there already.
query_handler_init_server(outcome) ==
    /\ pc = "init"
    /\ conn_poll_fds' = [i \in Slots |-> closed_pollfd]
    /\ IF outcome = "no_path"
       THEN pc' = "crashed" /\ listener' = "unset"
       ELSE /\ pc' = "main"
            /\ listener' = CASE outcome \in {"ok", "mkdir_fails"} -> "listening"
                             [] outcome = "socket_fails" -> "none"
                             [] OTHER -> "not_listening"
    /\ UNCHANGED <<tracker_vars, main_vars, client_state, idx, env_vars, hist_vars>>

\* The state when main() is about to call query_handler_init_server
InitSetup ==
    /\ active_seconds = [i \in PeriodIds |-> 0]
    /\ user_state = USER_UNKNOWN
    /\ user_state_timestamp = 0
    /\ check_user_state = 1
    /\ last_active_update = -1
    /\ client_state = [i \in Slots |-> zeroed_client_state]
    /\ conn_poll_fds = [i \in Slots |-> [fd |-> 0, events |-> {}]]
    /\ listener = "unset"
    /\ pc = "init"
    /\ idx = 0
    /\ clock = 0
    /\ pending = 0
    /\ established = {}
    /\ budget = [connects |-> 0, reads |-> 0, read_errors |-> 0, closes |-> 0,
                 partial_writes |-> 0, write_errors |-> 0, accept_errors |-> 0,
                 accepts |-> 0, full_waits |-> 0, calls |-> 0]
    /\ last_call = NoCall
    /\ run = NoRun
    /\ last_io = NoIo

Setup ==
    /\ pc = "init"
    /\ \E outcome \in SetupOutcomes : query_handler_init_server(outcome)

NextSetup == Setup \/ TickTimed \/ ConnectStatus \/ Accept \/ QhReturn

SpecSetup == InitSetup /\ [][NextSetup]_vars

(***************************************************************************)
(*          Long pauses and long active runs (SpecPause)                   *)
(*                                                                         *)
(* The clock is read at the instants of PauseTimes only: around the start  *)
(* and around the seconds at which a pause that began there exceeds the    *)
(* reset_seconds and break_seconds of the windows.                         *)
(***************************************************************************)
PauseTimes == {0, 1, 29, 30, 599, 600, 28799, 28800, 29400}

\* A pass of the loop for which no time passes
TickNow ==
    /\ pc = "main"
    /\ \E events \in {<<>>, <<"idle">>, <<"resumed">>} :
        MainTick(events, 0, 0)

\* A pass of the loop that reads the clock at a later instant
TickLater ==
    \E events \in {<<>>, <<"idle">>, <<"resumed">>}, now \in PauseTimes :
        /\ now > clock
        /\ MainTick(events, 0, now - clock)

NextPause == TickNow \/ TickLater \/ Accept \/ QhReturn

SpecPause == Init /\ [][NextPause]_vars

\* The loop never blocks, and the clock does not stand still.
SpecPauseFair ==
    /\ SpecPause
    /\ SF_vars(TickLater)
    /\ WF_vars(Accept)
    /\ WF_vars(QhReturn)

(***************************************************************************)
(*     The tracker's functions called with any argument (SpecBoundary)     *)
(***************************************************************************)
NegativeArgs == {-1, -40}

CallIdleAny ==
    /\ budget.calls < MaxCalls
    /\ \E s \in IdleArgs \cup NegativeArgs :
        /\ tracker_provide_idle_seconds(s)
        /\ last_call' = Call("idle", s, <<>>)
    /\ Called
    /\ UNCHANGED <<setup_vars, main_vars, qh_vars, ctl_vars, clock, pending, established, run, last_io>>

CallActiveAny ==
    /\ budget.calls < MaxCalls
    /\ \E d \in ActiveArgs \cup NegativeArgs :
        /\ \A i \in PeriodIds : active_seconds[i] + d <= MaxActive
        /\ tracker_provide_active_seconds(d)
        /\ last_call' = Call("active", d, <<>>)
    /\ Called
    /\ UNCHANGED <<setup_vars, main_vars, qh_vars, ctl_vars, clock, pending, established, run, last_io>>

NextBoundary == CallIdleAny \/ CallActiveAny \/ CallStatus

SpecBoundary == Init /\ [][NextBoundary]_vars

(***************************************************************************)
(*             Claims about the tracker (under SpecTracker)                *)
(***************************************************************************)

\* The rule of section 4.1 for one window
claimed_idle_rule(config, active, idle_seconds) ==
    IF /\ active > 0
       /\ active < config.limit_seconds
       /\ config.reset_seconds > 0
       /\ idle_seconds > config.reset_seconds
    THEN 0
    ELSE IF idle_seconds > config.break_seconds THEN 0 ELSE active

\* C1: tracker_provide_idle_seconds applies, to every window independently, the
\* rule "early reset if 0 < active < limit and reset > 0 and idle > reset, else
\* break reset if idle > break, else unchanged"; with reset=15, break=30,
\* limit=180 (micro): active=50, idle=16 resets; active=200, idle=16 does not;
\* active=200, idle=31 resets.
C1_IdleRule ==
    last_call.fn = "idle" =>
        /\ \A i \in PeriodIds :
              active_seconds[i] =
                  claimed_idle_rule(periods[i], last_call.pre[i], last_call.arg)
        /\ periods[1].reset_seconds = 15
        /\ periods[1].break_seconds = 30
        /\ periods[1].limit_seconds = 180
        /\ (last_call.pre[1] = 50 /\ last_call.arg = 16 => active_seconds[1] = 0)
        /\ (last_call.pre[1] = 200 /\ last_call.arg = 16 => active_seconds[1] = 200)
        /\ (last_call.pre[1] = 200 /\ last_call.arg = 31 => active_seconds[1] = 0)

\* An idle call of 16 s that resets micro (50 < 180) and leaves normal alone
C1_Witness ==
    /\ last_call.fn = "idle"
    /\ last_call.arg = 16
    /\ last_call.pre[1] = 50
    /\ active_seconds[1] = 0
    /\ last_call.pre[2] = 50
    /\ active_seconds[2] = 50

\* The wire format of section 6, read back
json_open == <<123,34,112,101,114,105,111,100,115,34,58,91>>      \* {"periods":[
json_key_name == <<34,110,97,109,101,34,58>>      \* "name":
json_key_safe == <<34,115,97,102,101,34,58>>      \* "safe":
json_key_accumulated == <<34,97,99,99,117,109,117,108,97,116,101,100,95,115,101,99,111,110,100,115,34,58>>      \* "accumulated_seconds":
json_key_break_at == <<34,98,114,101,97,107,95,97,116,34,58>>      \* "break_at":
json_true == <<116,114,117,101>>      \* true
json_false == <<102,97,108,115,101>>      \* false
json_close == <<93,125,10>>      \* ]}\n

HasAt(s, pos, lit) ==
    /\ pos > 0
    /\ pos + Len(lit) - 1 <= Len(s)
    /\ SubSeq(s, pos, pos + Len(lit) - 1) = lit

\* The position after lit, 0 if s does not have lit at pos
Lit(s, pos, lit) == IF HasAt(s, pos, lit) THEN pos + Len(lit) ELSE 0

RECURSIVE FindByte(_, _, _)
FindByte(s, pos, b) ==
    IF pos = 0 \/ pos > Len(s) THEN 0
    ELSE IF s[pos] = b THEN pos ELSE FindByte(s, pos + 1, b)

RECURSIVE DigitsEnd(_, _)
DigitsEnd(s, pos) ==
    IF pos <= Len(s) /\ s[pos] \in 48..57 THEN DigitsEnd(s, pos + 1) ELSE pos

\* The position after the decimal number at pos, 0 if there is none
NumberEnd(s, pos) ==
    IF pos = 0 \/ pos > Len(s) THEN 0
    ELSE LET from == IF s[pos] = 45 THEN pos + 1 ELSE pos
             to == DigitsEnd(s, from)
         IN  IF to > from THEN to ELSE 0

RECURSIVE NaturalValue(_)
NaturalValue(ds) ==
    IF ds = <<>> THEN 0
    ELSE NaturalValue(SubSeq(ds, 1, Len(ds) - 1)) * 10 + (ds[Len(ds)] - 48)

NumberValue(ds) == IF ds[1] = 45 THEN 0 - NaturalValue(Tail(ds)) ELSE NaturalValue(ds)

ParseEntry(s, pos) ==
    LET p1 == Lit(s, Lit(s, Lit(s, pos, <<123>>), json_key_name), <<34>>)
        q  == FindByte(s, p1, 34)
        p2 == Lit(s, Lit(s, Lit(s, q, <<34>>), <<44>>), json_key_safe)
        p3 == IF HasAt(s, p2, json_true) THEN p2 + Len(json_true)
              ELSE Lit(s, p2, json_false)
        p4 == Lit(s, Lit(s, p3, <<44>>), json_key_accumulated)
        p5 == NumberEnd(s, p4)
        p6 == Lit(s, Lit(s, p5, <<44>>), json_key_break_at)
        p7 == NumberEnd(s, p6)
        p8 == Lit(s, p7, <<125>>)
    IN  IF p8 = 0 THEN [ok |-> FALSE, next |-> 0, entry |-> <<>>]
        ELSE [ok |-> TRUE, next |-> p8,
              entry |-> [name |-> SubSeq(s, p1, q - 1),
                         safe |-> HasAt(s, p2, json_true),
                         accumulated_seconds |-> NumberValue(SubSeq(s, p4, p5 - 1)),
                         break_at |-> NumberValue(SubSeq(s, p6, p7 - 1))]]

RECURSIVE ParseEntries(_, _)
ParseEntries(s, pos) ==
    LET e == ParseEntry(s, pos)
    IN  IF ~e.ok THEN [ok |-> FALSE, next |-> 0, entries |-> <<>>]
        ELSE IF HasAt(s, e.next, <<44>>)
        THEN LET rest == ParseEntries(s, e.next + 1)
             IN  [ok |-> rest.ok, next |-> rest.next,
                  entries |-> <<e.entry>> \o rest.entries]
        ELSE [ok |-> TRUE, next |-> e.next, entries |-> <<e.entry>>]

\* The entries of a status line; ok is FALSE if it is not of the shape of section 6
ParseStatus(s) ==
    LET es == ParseEntries(s, Lit(s, 1, json_open))
    IN  IF es.ok /\ Lit(s, es.next, json_close) = Len(s) + 1
        THEN [ok |-> TRUE, entries |-> es.entries]
        ELSE [ok |-> FALSE, entries |-> <<>>]

ExpectedNames == <<str_micro, str_normal, str_workday>>
ExpectedLimits == <<180, 2700, 14400>>

\* C2: the status snapshot has exactly one entry per configured window, in the
\* order micro, normal, workday, each with the window's name,
\* accumulated_seconds = active_seconds, break_at = limit_seconds and
\* safe = (active_seconds <= limit_seconds); producing it changes no window;
\* after 200 accumulated seconds micro is unsafe, normal and workday are safe.
C2_StatusSnapshot ==
    last_call.fn = "status" =>
        LET parsed == ParseStatus(last_call.ret)
            e == parsed.entries
        IN  /\ parsed.ok
            /\ Len(e) = tracker_count_periods
            /\ Len(e) = 3
            /\ \A i \in 1..Len(e) :
                  /\ e[i].name = ExpectedNames[i]
                  /\ e[i].name = periods[i].name
                  /\ e[i].accumulated_seconds = last_call.pre[i]
                  /\ e[i].break_at = periods[i].limit_seconds
                  /\ e[i].break_at = ExpectedLimits[i]
                  /\ e[i].safe = (last_call.pre[i] <= periods[i].limit_seconds)
            /\ active_seconds = last_call.pre
            /\ ((\A i \in PeriodIds : last_call.pre[i] = 200) =>
                  ~e[1].safe /\ e[2].safe /\ e[3].safe)

\* A snapshot taken after 200 accumulated seconds
C2_Witness ==
    /\ last_call.fn = "status"
    /\ \A i \in PeriodIds : last_call.pre[i] = 200
    /\ last_call.ret # <<>>

\* C10: a call of tracker_provide_idle_seconds never increases a window's
\* active_seconds: after it every window is unchanged or 0 (in particular over
\* repeated calls with a non-decreasing argument).
C10_IdleNeverIncreases ==
    last_call.fn = "idle" =>
        \A i \in PeriodIds :
            /\ active_seconds[i] \in {last_call.pre[i], 0}
            /\ active_seconds[i] <= last_call.pre[i]

\* The second of two idle calls with a non-decreasing argument: one window is
\* reset by it, another keeps its accumulated seconds
C10_Witness ==
    /\ last_call.fn = "idle"
    /\ last_call.prev_fn = "idle"
    /\ last_call.prev_arg <= last_call.arg
    /\ \E i \in PeriodIds : last_call.pre[i] > 0 /\ active_seconds[i] = 0
    /\ \E i \in PeriodIds : last_call.pre[i] > 0 /\ active_seconds[i] = last_call.pre[i]

(***************************************************************************)
(*                 Requests and responses of a connection                  *)
(***************************************************************************)
\* The first n bytes of a C array
Held(arr, n) == Bytes([k \in 1..Max(n, 0) |-> At(arr, k - 1)])

\* The complete lines of a byte string: what stands before each newline
RECURSIVE LinesOf(_)
LinesOf(bytes) ==
    LET n == FindByte(bytes, 1, NL)
    IN  IF n = 0 THEN <<>>
        ELSE <<SubSeq(bytes, 1, n - 1)>> \o LinesOf(SubSeq(bytes, n + 1, Len(bytes)))

\* How many of the lines are exactly status
StatusCount(lines) == Cardinality({k \in 1..Len(lines) : lines[k] = str_status})

RECURSIVE Repeat(_, _)
Repeat(bytes, k) == IF k = 0 THEN <<>> ELSE bytes \o Repeat(bytes, k - 1)

\* The last client iteration handled the complete requests of its slot
Handled == last_io.slot >= 0 /\ last_io.handled

\* C3: when the handler has handled k >= 1 status lines of a connection whose
\* output buffer was empty (and k responses fit), the output buffer holds k
\* status responses back to back.
C3_ResponsePerStatusRequest ==
    Handled =>
        LET before == last_io.before_handle
            after == client_state[last_io.slot]
            k == StatusCount(LinesOf(Held(before.in, before.in_len)))
            response == tracker_get_status_json(active_seconds)
        IN  (k >= 1 /\ before.out_len = 0
                /\ k * Len(response) <= QUERY_HANDLER_MAX_CLIENT_BUFFER)
            => /\ after.out_len = k * Len(response)
               /\ Held(after.out, after.out_len) = Repeat(response, k)

\* C4: handling lines of which none is exactly status leaves out and out_len
\* as they were, and handling status\ninfo\n with an empty output buffer
\* leaves exactly one status response.
C4_OnlyStatusAnswered ==
    Handled =>
        LET before == last_io.before_handle
            after == client_state[last_io.slot]
            held == Held(before.in, before.in_len)
            response == tracker_get_status_json(active_seconds)
        IN  /\ StatusCount(LinesOf(held)) = 0
                => after.out_len = before.out_len /\ after.out = before.out
            /\ (held = req_status_info /\ before.out_len = 0)
                => Held(after.out, after.out_len) = response

\* C5: a read of N > 0 bytes into a buffer that holds M bytes leaves
\* in_len = M + N, the first M bytes unchanged and the N bytes after them.
C5_ReadAppends ==
    (last_io.slot >= 0 /\ last_io.read_count > 0 /\ last_io.pre.in_len >= 0) =>
        LET M == last_io.pre.in_len
            N == last_io.read_count
        IN  /\ last_io.after_read.in_len = M + N
            /\ Held(last_io.after_read.in, M) = Held(last_io.pre.in, M)

\* C6: for every connection slot 0 <= in_len <= C and 0 <= out_len <= C.
C6_LengthsWithinCapacity ==
    \A i \in Slots :
        /\ client_state[i].in_len \in 0..QUERY_HANDLER_MAX_CLIENT_BUFFER
        /\ client_state[i].out_len \in 0..QUERY_HANDLER_MAX_CLIENT_BUFFER

(***************************************************************************)
(*                      The limit of 16 connections                        *)
(***************************************************************************)
\* C7: at most MAX_CLIENTS slots hold a connection, and every connection the
\* server has accepted and not closed is held by exactly one slot (no accept
\* happens without a free slot to store it in).
C7_AtMostMaxClients ==
    /\ query_handler_current_client_count <= QUERY_HANDLER_MAX_CLIENTS
    /\ established = {conn_poll_fds[i].fd : i \in {j \in Slots : conn_poll_fds[j].fd >= 0}}
    /\ \A i, j \in Slots :
          (conn_poll_fds[i].fd >= 0 /\ conn_poll_fds[i].fd = conn_poll_fds[j].fd) => i = j

\* Every slot is taken, and query_handler_run has passed its accept with an
\* attempt pending.
C7_Witness ==
    /\ query_handler_current_client_count = QUERY_HANDLER_MAX_CLIENTS
    /\ pending > 0
    /\ pc = "clients"
    /\ budget.full_waits > 0

\* C8: while 16 connections are established no pending attempt is accepted
\* or dropped, and a pending attempt with a slot free leads to an accept.
C8_PendingUntilSlotFrees ==
    /\ [][query_handler_current_client_count = QUERY_HANDLER_MAX_CLIENTS
            => (pending' >= pending /\ established' \subseteq established)]_vars
    /\ \A n \in 0..(MaxCapacityConnects + 1) :
          (pending > 0
              /\ query_handler_current_client_count < QUERY_HANDLER_MAX_CLIENTS
              /\ budget.accepts = n)
          ~> (budget.accepts > n)

\* An attempt waited while every slot was taken, a connection was closed, and
\* the attempt has been accepted: 17 accepts, 16 slots taken again.
C8_Witness ==
    /\ budget.full_waits > 0
    /\ budget.closes > 0
    /\ budget.accepts = QUERY_HANDLER_MAX_CLIENTS + 1
    /\ query_handler_current_client_count = QUERY_HANDLER_MAX_CLIENTS

(***************************************************************************)
(*                   Reports of active seconds                             *)
(***************************************************************************)
\* C9: in an Active run with a report made, the last delta is >= 1, the
\* reports of the run are at strictly increasing seconds, and the deltas of
\* the run sum to the seconds from the run's since to its latest report.
C9_ActiveSecondsOncePerSecond ==
    (run.state = USER_ACTIVE /\ run.reports > 0) =>
        /\ run.last_seconds >= 1
        /\ run.prev_report < run.last_report
        /\ run.sum = run.last_report - run.since
        /\ last_active_update = run.last_report

\* A second Active run (seconds of an earlier run are accumulated) with two
\* reports made.
C9_Witness ==
    /\ run.state = USER_ACTIVE
    /\ run.reports >= 2
    /\ run.prev_report >= 0
    /\ active_seconds[1] > run.sum


(***************************************************************************)
(*                 Claims C11 to C20                                       *)
(***************************************************************************)
\* C11: tracker_provide_active_seconds(d) with d > 0 adds exactly d to every
\* window's active_seconds, so no window decreases and every window stays
\* non-negative.
C11_ActiveAddsToEveryWindow ==
    (last_call.fn = "active" /\ last_call.arg > 0) =>
        \A i \in PeriodIds :
            /\ active_seconds[i] = last_call.pre[i] + last_call.arg
            /\ active_seconds[i] >= last_call.pre[i]
            /\ active_seconds[i] >= 0

\* The second of two active calls in a row, on windows that had accumulated
\* seconds already.
C11_Witness ==
    /\ last_call.fn = "active"
    /\ last_call.prev_fn = "active"
    /\ last_call.arg > 0
    /\ \A i \in PeriodIds : last_call.pre[i] > 0
    /\ \A i \in PeriodIds : active_seconds[i] = last_call.pre[i] + last_call.arg

\* C20: a call of tracker_provide_active_seconds or
\* tracker_provide_idle_seconds with a negative number of seconds leaves
\* every window's active_seconds unchanged.
C20_NegativeSecondsRejected ==
    (last_call.fn \in {"active", "idle"} /\ last_call.arg < 0) =>
        active_seconds = last_call.pre


\* C12: handling one message of length L from an input buffer that holds
\* L+1+K bytes leaves the K bytes after the newline at positions [0, K), in
\* order, and in_len = K.
C12_RemainderShiftedToFront ==
    Handled =>
        LET before == last_io.before_handle
            after == last_io.first_handled
            held == Held(before.in, before.in_len)
            n == FindByte(held, 1, NL)
            K == before.in_len - n
        IN  /\ n > 0
            /\ after.in_len = K
            /\ Held(after.in, K) = SubSeq(held, n + 1, Len(held))

\* The first message of a buffer that holds more bytes after it has been
\* handled.
C12_Witness ==
    /\ Handled
    /\ last_io.first_handled.in_len > 0
    /\ last_io.before_handle.in_len > last_io.first_handled.in_len + 1


\* C13: a write that sends W of the out_len queued bytes: with W = out_len it
\* leaves out_len = 0 and POLLOUT cleared (until a response is queued again);
\* with 0 <= W < out_len it leaves the unsent out_len - W bytes at the start
\* of the output buffer in order, out_len - W as out_len and POLLOUT set.
C13_WriteKeepsUnsentBytes ==
    (last_io.slot >= 0 /\ last_io.write_count >= 0) =>
        LET queued == last_io.after_read
            left == last_io.before_handle
            W == last_io.write_count
            n == queued.out_len
            events == conn_poll_fds[last_io.slot].events
        IN  /\ W = n =>
                /\ left.out_len = 0
                /\ ~last_io.handled => POLLOUT \notin events
            /\ W < n =>
                /\ left.out_len = n - W
                /\ Held(left.out, n - W) = SubSeq(Held(queued.out, n), W + 1, n)
                /\ POLLOUT \in events


\* C14: after a read that returned 0 the slot's fd is -1 and its connection
\* is no longer established; no client iteration runs for a slot whose fd is
\* -1; and an accept stores the new connection in a free slot (a released one
\* included) with a zeroed client_state and POLLIN as its events.
C14_ReadZeroReleasesSlot ==
    /\ [](  (last_io.slot >= 0 /\ last_io.read_count = 0) =>
                /\ last_io.pre_fds[last_io.slot].fd >= 0
                /\ last_io.pre_fds[last_io.slot].fd \notin established
                /\ conn_poll_fds[last_io.slot].fd = -1)
    /\ [][(last_io' # last_io /\ last_io'.slot >= 0)
            => conn_poll_fds[last_io'.slot].fd >= 0]_vars
    /\ [][~(established' \subseteq established) =>
            \E i \in Slots :
                /\ conn_poll_fds[i].fd = -1
                /\ conn_poll_fds'[i].fd \in established' \ established
                /\ conn_poll_fds'[i].events = {POLLIN}
                /\ client_state'[i] = zeroed_client_state]_vars

\* Four connections were accepted and one of them closed, and only the first
\* three slots are in use: the released slot holds a later connection.
C14_Witness ==
    /\ budget.closes = 1
    /\ budget.accepts = 4
    /\ {i \in Slots : conn_poll_fds[i].fd >= 0} = 0..2


\* C15: a read that returns -1 leaves the connection open in its slot and its
\* input buffer, in_len, output buffer and out_len as they were.
C15_ReadErrorChangesNothing ==
    (last_io.slot >= 0 /\ last_io.read_count = -1) =>
        /\ conn_poll_fds[last_io.slot] = last_io.pre_fds[last_io.slot]
        /\ client_state[last_io.slot].in = last_io.pre.in
        /\ client_state[last_io.slot].in_len = last_io.pre.in_len
        /\ client_state[last_io.slot].out = last_io.pre.out
        /\ client_state[last_io.slot].out_len = last_io.pre.out_len

\* C16: a write that returns -1 closes the connection and releases its slot
\* (fd -1, no longer established).
C16_WriteErrorReleasesSlot ==
    (last_io.slot >= 0 /\ last_io.write_count = -1) =>
        /\ conn_poll_fds[last_io.slot].fd = -1
        /\ last_io.pre_fds[last_io.slot].fd \notin established


\* C17: a client iteration for slot i leaves the fd, events, input buffer,
\* in_len, output buffer and out_len of every other slot, and every window's
\* active_seconds, as they were.
C17_OtherSlotsUnchanged ==
    last_io.slot >= 0 =>
        /\ \A j \in Slots \ {last_io.slot} :
              /\ conn_poll_fds[j] = last_io.pre_fds[j]
              /\ client_state[j] = last_io.pre_state[j]
        /\ active_seconds = last_io.pre_active


\* C19: user_state starts as USER_UNKNOWN; after an idle event it is
\* USER_IDLE and after a resumed event USER_ACTIVE, with the time of the event
\* as user_state_timestamp; a step changes it only to USER_IDLE or
\* USER_ACTIVE, so it is never USER_UNKNOWN again once it has left it.
C19_UserStateTransitions ==
    /\ user_state = USER_UNKNOWN
    /\ [](  /\ run.event = "none" => user_state = USER_UNKNOWN
            /\ run.event = "idle" => user_state = USER_IDLE
            /\ run.event = "resumed" => user_state = USER_ACTIVE
            /\ run.event # "none" => user_state_timestamp = run.since
            /\ user_state_timestamp <= clock)
    /\ [][  /\ user_state' # user_state => user_state' \in {USER_IDLE, USER_ACTIVE}
            /\ user_state # USER_UNKNOWN => user_state' # USER_UNKNOWN
            /\ user_state_timestamp' # user_state_timestamp
                  => (clock <= user_state_timestamp' /\ user_state_timestamp' <= clock')]_vars

\* The user is idle again after an active run that was reported to the
\* tracker: Unknown or Idle -> Active -> Idle.
C19_Witness ==
    /\ user_state = USER_IDLE
    /\ run.event = "idle"
    /\ run.since > 0
    /\ user_state_timestamp = run.since
    /\ active_seconds[1] > 0


\* What this tick's call of the tracker (last_call) makes of the windows
AfterDispatch ==
    [i \in PeriodIds |->
        CASE last_call.fn = "active" -> last_call.pre[i] + last_call.arg
          [] last_call.fn = "idle" ->
                claimed_idle_rule(periods[i], last_call.pre[i], last_call.arg)
          [] OTHER -> last_call.pre[i]]

\* C18: the loop runs the connection cycle after the tick's call of the
\* tracker and the windows do not change during the cycle, so a status
\* response serialized in a tick holds, for every window, the
\* accumulated_seconds that the tick's dispatch left.
C18_StatusReflectsThisTick ==
    /\ [][pc # "main" => active_seconds' = active_seconds]_vars
    /\ [][last_io' # last_io /\ last_io'.slot >= 0 => pc = "clients"]_vars
    /\ []((Handled /\ StatusCount(LinesOf(Held(last_io.before_handle.in,
                                               last_io.before_handle.in_len))) >= 1) =>
            LET cs == client_state[last_io.slot]
                parsed == ParseStatus(Held(cs.out, cs.out_len))
            IN  /\ parsed.ok
                /\ Len(parsed.entries) = tracker_count_periods
                /\ \A i \in PeriodIds :
                      parsed.entries[i].accumulated_seconds = AfterDispatch[i])

\* A status request is answered in a tick whose dispatch added active
\* seconds to windows that had accumulated seconds before.
C18_Witness ==
    /\ Handled
    /\ StatusCount(LinesOf(Held(last_io.before_handle.in,
                                last_io.before_handle.in_len))) >= 1
    /\ last_call.fn = "active"
    /\ last_call.arg > 0
    /\ last_call.pre[1] > 0
    /\ client_state[last_io.slot].out_len > 0


(***************************************************************************)
(*                 Claims C21 to C30                                       *)
(***************************************************************************)
\* C21: when query_handler_init_server has not produced a listening socket,
\* the process goes on (the loop runs) and no connection is accepted or
\* served.
C21_SetupFailureKeepsLoopRunning ==
    (pc # "init" /\ listener # "listening") =>
        /\ pc # "crashed"
        /\ established = {}
        /\ \A i \in Slots : conn_poll_fds[i].fd = -1


\* C22: after a pass of the loop, with the user state Unknown no tracker
\* function was called and the windows are unchanged; with Idle
\* tracker_provide_idle_seconds was called with 1 + the seconds since the
\* state's timestamp and no window has increased; with Active at most
\* tracker_provide_active_seconds was called and no window has decreased.
C22_DispatchFollowsUserState ==
    last_call.pre # <<>> =>
        /\ user_state = USER_UNKNOWN =>
              last_call.fn = "none" /\ active_seconds = last_call.pre
        /\ user_state = USER_IDLE =>
              /\ last_call.fn = "idle"
              /\ last_call.arg = 1 + clock - user_state_timestamp
              /\ \A i \in PeriodIds : active_seconds[i] <= last_call.pre[i]
        /\ user_state = USER_ACTIVE =>
              /\ last_call.fn \in {"active", "none"}
              /\ last_call.fn = "none" => active_seconds = last_call.pre
              /\ \A i \in PeriodIds : active_seconds[i] >= last_call.pre[i]

\* A pass of the loop with the user idle for more than 30 seconds resets a
\* window and keeps another.
C22_Witness ==
    /\ user_state = USER_IDLE
    /\ last_call.fn = "idle"
    /\ last_call.arg > 30
    /\ \E i \in PeriodIds : last_call.pre[i] > 0 /\ active_seconds[i] = 0
    /\ \E i \in PeriodIds : last_call.pre[i] > 0 /\ active_seconds[i] = last_call.pre[i]

\* C23: tracker_provide_idle_seconds(s1) followed by
\* tracker_provide_idle_seconds(s2) with 0 <= s1 <= s2 leaves every window as
\* tracker_provide_idle_seconds(s2) alone would have; with s1 = s2 the second
\* call changes nothing.
C23_IdleTwiceAsOnce ==
    (/\ last_call.fn = "idle"
     /\ last_call.prev_fn = "idle"
     /\ 0 <= last_call.prev_arg
     /\ last_call.prev_arg <= last_call.arg) =>
        /\ \A i \in PeriodIds :
              active_seconds[i] =
                  idle_period(periods[i], last_call.prev_pre[i], last_call.arg)
        /\ last_call.prev_arg = last_call.arg => active_seconds = last_call.pre

\* The first of two idle calls resets a window and the second, with a
\* larger argument, another one.
C23_Witness ==
    /\ last_call.fn = "idle"
    /\ last_call.prev_fn = "idle"
    /\ last_call.prev_arg < last_call.arg
    /\ \E i \in PeriodIds : last_call.prev_pre[i] > 0 /\ last_call.pre[i] = 0
    /\ \E i \in PeriodIds : last_call.pre[i] > 0 /\ active_seconds[i] = 0


\* C24: when a status request is handled while the output buffer holds
\* out_len > 0 unsent bytes, those bytes are still the first out_len bytes of
\* the output buffer afterwards.
C24_QueuedBytesKept ==
    (/\ Handled
     /\ last_io.before_handle.out_len > 0
     /\ StatusCount(LinesOf(Held(last_io.before_handle.in,
                                 last_io.before_handle.in_len))) >= 1) =>
        LET before == last_io.before_handle
            after == client_state[last_io.slot]
        IN  /\ after.out_len >= before.out_len
            /\ Held(after.out, before.out_len) = Held(before.out, before.out_len)

\* C25: a handled message consumes at least one byte, and after the client
\* iteration of a connection that was read from and is still open no newline
\* is left inside [0, in_len) of its input buffer.
C25_AllCompleteRequestsHandled ==
    /\ Handled => last_io.first_handled.in_len < last_io.before_handle.in_len
    /\ (/\ last_io.slot >= 0
        /\ last_io.read_count > 0
        /\ conn_poll_fds[last_io.slot].fd >= 0) =>
            ~query_handler_message_ready(client_state[last_io.slot])


\* C26: while the user is Idle a window is 0 at every tick at which
\* 1 + seconds elapsed since `since` exceeds its break_seconds, whatever its
\* value and limit were; a window that is 0 becomes positive only by an
\* active report; and an Idle state that lasts, with ticks that keep running,
\* leads to all windows being 0.
C26_LongPauseClearsEveryWindow ==
    /\ [](user_state = USER_IDLE =>
            \A i \in PeriodIds :
                1 + clock - user_state_timestamp > periods[i].break_seconds =>
                    active_seconds[i] = 0)
    /\ [][\A i \in PeriodIds :
            active_seconds[i] = 0 /\ active_seconds'[i] > 0 =>
                last_call'.fn = "active"]_vars
    /\ \A s \in {t \in PauseTimes :
                    \E u \in PauseTimes :
                        \A i \in PeriodIds : 1 + u - t > periods[i].break_seconds} :
          (user_state = USER_IDLE /\ user_state_timestamp = s)
             ~> \/ user_state # USER_IDLE
                \/ user_state_timestamp # s
                \/ \A i \in PeriodIds : active_seconds[i] = 0

\* The tick of a pause that clears the last window: the pause began after an
\* active run that took a window to its limit, and the idle report of this
\* tick takes the workday window from a positive value to 0.
C26_Witness ==
    /\ user_state = USER_IDLE
    /\ user_state_timestamp > 0
    /\ last_call.fn = "idle"
    /\ \E i \in PeriodIds : last_call.pre[i] >= periods[i].limit_seconds
    /\ last_call.pre[3] > 0
    /\ \A i \in PeriodIds : active_seconds[i] = 0


\* The bytes that the read of the last client iteration delivered
LastRead ==
    Bytes([k \in 1..Max(last_io.read_count, 0) |->
              At(last_io.after_read.in, last_io.pre.in_len + k - 1)])

\* C27: the response to a status line is queued in the tick in which the line
\* is read: after a client iteration without I/O error whose read completes
\* the line status\n (the bytes held before it and the bytes it delivers are
\* together that line) on a connection with nothing queued, the output buffer
\* holds the status response and the slot has write interest, so that a later
\* tick writes it.
C27_ResponseQueuedWhenRequestRead ==
    (/\ last_io.slot >= 0
     /\ last_io.read_count > 0
     /\ last_io.write_count # -1
     /\ last_io.pre.in_len >= 0
     /\ last_io.pre.out_len = 0
     /\ Held(last_io.pre.in, last_io.pre.in_len) \o LastRead = req_status) =>
        LET after == client_state[last_io.slot]
            response == tracker_get_status_json(last_io.pre_active)
        IN  /\ after.out_len = Len(response)
            /\ Held(after.out, after.out_len) = response
            /\ POLLOUT \in conn_poll_fds[last_io.slot].events


\* C28: when query_handler_run has returned, every open connection has POLLOUT
\* in its slot's events if and only if its out_len > 0.
C28_WriteInterestIffQueued ==
    pc = "main" =>
        \A i \in Slots :
            conn_poll_fds[i].fd >= 0 =>
                (POLLOUT \in conn_poll_fds[i].events <=> client_state[i].out_len > 0)


(***************************************************************************)
(*          A slot given to a second connection (SpecReuse)                *)
(*                                                                         *)
(* A client connects, sends a request or a part of one, is or is not sent  *)
(* its response, and closes; the next client connects after that, is given *)
(* the same slot and sends lines that ask for nothing.                     *)
(***************************************************************************)
MaxReuseConnects == 2
MaxReuseReads == 2

FirstReads == {ReadEof, [kind |-> "data", data |-> req_status],
               [kind |-> "data", data |-> req_sta]}
LaterReads == {[kind |-> "data", data |-> req_tus],
               [kind |-> "data", data |-> req_info]}

ConnectReuse ==
    /\ budget.connects < MaxReuseConnects
    /\ established = {}
    /\ pending = 0
    /\ ClientConnects

ReuseIO ==
    /\ pc = "clients"
    /\ \E i \in {j \in Slots : j >= idx /\ conn_poll_fds[j].fd >= 0} :
        \E revents \in (SUBSET conn_poll_fds[i].events) \ {{}} :
          \E rd \in IF POLLIN \in revents
                   THEN (IF budget.accepts = 1 THEN FirstReads ELSE LaterReads)
                   ELSE {NoRead},
             wr \in IF POLLOUT \in revents
                   THEN WriteChoices(client_state[i].out_len) ELSE {NoWrite} :
            /\ charge(budget, rd, wr).reads <= MaxReuseReads
            /\ charge(budget, rd, wr).closes <= MaxCloses
            /\ charge(budget, rd, wr).partial_writes <= MaxPartialWrites
            /\ charge(budget, rd, wr).write_errors <= MaxWriteErrors
            /\ budget' = charge(budget, rd, wr)
            /\ QhClient(i, revents, rd, wr, "little")

NextReuse == TickQuiet \/ ConnectReuse \/ Accept \/ ReuseIO \/ QhReturn

SpecReuse == Init /\ [][NextReuse]_vars

\* C29: query_handler_store_connection leaves the slot it takes with
\* in_len = 0, out_len = 0, both buffers zero and events = POLLIN, whatever
\* the slot's previous connection left in it; and a later client, which sends
\* only lines that ask for nothing, is never written to, has nothing queued,
\* and the input handled for it is what was read from it.
C29_NewConnectionStartsClean ==
    /\ [][\A i \in Slots :
            (conn_poll_fds[i].fd = -1 /\ conn_poll_fds'[i].fd >= 0) =>
                /\ client_state'[i].in_len = 0
                /\ client_state'[i].out_len = 0
                /\ \A k \in 0..(QUERY_HANDLER_MAX_CLIENT_BUFFER - 1) :
                      At(client_state'[i].in, k) = 0 /\ At(client_state'[i].out, k) = 0
                /\ conn_poll_fds'[i].events = {POLLIN}]_vars
    /\ []((budget.accepts >= 2 /\ last_io.slot >= 0) =>
            /\ POLLOUT \notin last_io.revents
            /\ client_state[last_io.slot].out_len = 0
            /\ POLLOUT \notin conn_poll_fds[last_io.slot].events
            /\ last_io.handled =>
                  Held(last_io.before_handle.in, last_io.before_handle.in_len) = LastRead)

\* The second connection has just been stored in the slot of the first, which
\* was closed with bytes in its input buffer, an unsent response and POLLOUT
\* in its events.
C29_Witness ==
    /\ "stored" \in DOMAIN last_io
    /\ budget.accepts = 2
    /\ At(last_io.old_state.in, 0) # 0
    /\ last_io.old_state.out_len > 0
    /\ POLLOUT \in last_io.old_pollfd.events
    /\ client_state[last_io.stored] = zeroed_client_state
    /\ conn_poll_fds[last_io.stored].events = {POLLIN}


(***************************************************************************)
(*        A line longer than the input buffer (SpecLong)                   *)
(*                                                                         *)
(* One client sends a line of more than QUERY_HANDLER_MAX_CLIENT_BUFFER    *)
(* bytes, of which a read returns as many as it is given room for, and     *)
(* more bytes after it; a read may fail and the client may close.          *)
(***************************************************************************)
MaxLongReads == 3

LongReads == {ReadError, ReadEof, [kind |-> "data", data |-> req_long],
              [kind |-> "data", data |-> req_sta]}

LongIO ==
    /\ pc = "clients"
    /\ \E i \in {j \in Slots : j >= idx /\ conn_poll_fds[j].fd >= 0} :
        \E rd \in LongReads :
            /\ charge(budget, rd, NoWrite).reads <= MaxLongReads
            /\ charge(budget, rd, NoWrite).read_errors <= MaxReadErrors
            /\ charge(budget, rd, NoWrite).closes <= MaxCloses
            /\ budget' = charge(budget, rd, NoWrite)
            /\ QhClient(i, {POLLIN}, rd, NoWrite, "little")

NextLong == TickQuiet \/ Connect \/ Accept \/ LongIO \/ QhReturn

SpecLong == Init /\ [][NextLong]_vars

\* C30: no read stores a byte past the end of the input buffer, and a read
\* that does not fail on a connection whose input buffer is full
\* (in_len = C) without a newline returns 0 and releases the slot.
C30_LongMessageNeverOverflows ==
    /\ (last_io.slot >= 0 /\ last_io.read_count > 0) =>
          last_io.pre.in_len + last_io.read_count <= QUERY_HANDLER_MAX_CLIENT_BUFFER
    /\ (/\ last_io.slot >= 0
        /\ POLLIN \in last_io.revents
        /\ last_io.read_count # -1
        /\ last_io.pre.in_len = QUERY_HANDLER_MAX_CLIENT_BUFFER
        /\ ~query_handler_message_ready(last_io.pre)) =>
            /\ last_io.read_count = 0
            /\ conn_poll_fds[last_io.slot].fd = -1
            /\ last_io.pre_fds[last_io.slot].fd \notin established

=============================================================================
